---------------------------- MODULE Spec2Model ----------------------------
(***************************************************************************)
(* Step / timer / navigation orchestration core of the test-procedure UI.  *)
(*                                                                         *)
(* TimerManager, NavigationManager, ResultManager and TestManager are      *)
(* modelled as operators over a record holding the whole program state;    *)
(* each action of the state machine is one call into the program made at   *)
(* the clock instant `now`.                                                *)
(*                                                                         *)
(* Encodings: Python None is NoneInt for times/durations, NoneIdx for the  *)
(* active timer index and "None" for the tri-state validity; a result      *)
(* value is a record [kind, n] so that numbers, numeric text and tokens    *)
(* live in one comparable type.  time.time() is the integer clock `now`.   *)
(***************************************************************************)
EXTENDS Integers, Sequences, FiniteSets, TLC

VARIABLES
    steps,                \* TestManager.steps (shared with session.steps)
    current_step_index,   \* TestManager.current_step_index
    step_timers,          \* TimerManager.step_timers
    active_step_index,    \* TimerManager.active_step_index
    update_timer,         \* TimerManager.update_timer.isActive()
    navigation_history,   \* NavigationManager.navigation_history
    session,              \* TestManager.session (start_time, end_time)
    user_role,            \* auth_manager.get_role(), "none" without auth_manager
    now,                  \* time.time()
    emitted,              \* signals emitted by the last call, in order
    test_completed_count, \* number of test_completed emissions so far
    end_time_writes,      \* number of writes of session.end_time so far
    current_mode,         \* mode of the last successful navigation
    sidebar,              \* ProgressNavigator: clickable, current_step_index
    input_widget          \* ContentWidget.current_input_widget

vars == <<steps, current_step_index, step_timers, active_step_index,
          update_timer, navigation_history, session, user_role, now, emitted,
          test_completed_count, end_time_writes, current_mode, sidebar,
          input_widget>>

---------------------------------------------------------------------------
(* Bounds of the model *)

MaxSteps == 2
MaxTime == 2
MaxHistory == 3
MaxCompletions == 2
MaxBudget == 10

---------------------------------------------------------------------------
(* Encodings of None *)

NoneInt == -1
NoneIdx == -2

---------------------------------------------------------------------------
(* models/enums.py *)

TestStatus == {"not_started", "in_progress", "passed", "failed", "skipped"}
InputType == {"none", "number", "pass_fail", "comment"}
TimerStatus == {"normal", "warning", "critical", "overtime"}
NavigationMode == {"normal", "view_only", "edit", "resume"}

(* config.py *)
TIMER_WARNING_THRESHOLD == 20
TIMER_CRITICAL_THRESHOLD == 10
ADMIN == "admin"
OPERATOR == "operator"
DEVELOPER == "developer"
BACKWARD_NAV_ROLES == {ADMIN, DEVELOPER}
EDIT_ROLES == {ADMIN, DEVELOPER}

can_navigate_back(role) == role \in BACKWARD_NAV_ROLES
can_edit_results(role) == role \in EDIT_ROLES

---------------------------------------------------------------------------
(* Result values *)

Absent == [kind |-> "absent", n |-> 0]
Num(n) == [kind |-> "number", n |-> n]
Text(n) == [kind |-> "text", n |-> n]
Token(t) == [kind |-> t, n |-> 0]

\* Python truthiness of a value: None, "", 0 are falsy; "0" is truthy
Truthy(v) ==
    CASE v.kind = "absent" -> FALSE
      [] v.kind = "number" -> v.n # 0
      [] OTHER -> TRUE

---------------------------------------------------------------------------
(* Signals *)

Event(sig, index, num, text, value, old) ==
    [sig |-> sig, index |-> index, num |-> num, text |-> text,
     value |-> value, old |-> old]

Emit(S, e) == [S EXCEPT !.emitted = Append(@, e)]

---------------------------------------------------------------------------
(* managers/timer_manager.py -- operators over the program state S *)

HasTimer(S, i) == i \in DOMAIN S.step_timers

\* start_timer that forgets to make the started index the active one
start_timer_no_active(S, step_index, time_limit) ==
    LET timers ==
          IF ~HasTimer(S, step_index)
          THEN (step_index :> [start_time |-> S.now, elapsed |-> 0,
                               paused |-> FALSE, limit |-> time_limit])
               @@ S.step_timers
          ELSE [S.step_timers EXCEPT ![step_index] =
                  [@ EXCEPT !.start_time = S.now, !.paused = FALSE,
                            !.limit = time_limit]]
    IN [S EXCEPT !.step_timers = timers, !.update_timer = TRUE]

start_timer(S, step_index, time_limit) ==
    LET timers ==
          IF ~HasTimer(S, step_index)
          THEN (step_index :> [start_time |-> S.now, elapsed |-> 0,
                               paused |-> FALSE, limit |-> time_limit])
               @@ S.step_timers
          ELSE [S.step_timers EXCEPT ![step_index] =
                  [@ EXCEPT !.start_time = S.now, !.paused = FALSE,
                            !.limit = time_limit]]
    IN [S EXCEPT !.step_timers = timers,
                 !.active_step_index = step_index,
                 !.update_timer = TRUE]

\* stop_timer that clears the active index but leaves the timer running
stop_timer_keeps_running(S, step_index) ==
    IF ~HasTimer(S, step_index) THEN S
    ELSE IF S.active_step_index = step_index
         THEN [S EXCEPT !.active_step_index = NoneIdx, !.update_timer = FALSE]
         ELSE S

\* stop_timer that adds the time since the last start also when the timer
\* is already paused
stop_timer_always_accumulates(S, step_index) ==
    IF ~HasTimer(S, step_index) THEN S
    ELSE
      LET td == S.step_timers[step_index]
          S1 == [S EXCEPT !.step_timers[step_index] =
                   [@ EXCEPT !.elapsed = @ + (S.now - td.start_time),
                             !.paused = TRUE]]
      IN IF S1.active_step_index = step_index
         THEN [S1 EXCEPT !.active_step_index = NoneIdx,
                         !.update_timer = FALSE]
         ELSE S1

stop_timer(S, step_index) ==
    IF ~HasTimer(S, step_index) THEN S
    ELSE
      LET td == S.step_timers[step_index]
          S1 == IF ~td.paused
                THEN [S EXCEPT !.step_timers[step_index] =
                        [@ EXCEPT !.elapsed = @ + (S.now - td.start_time),
                                  !.paused = TRUE]]
                ELSE S
      IN IF S1.active_step_index = step_index
         THEN [S1 EXCEPT !.active_step_index = NoneIdx,
                         !.update_timer = FALSE]
         ELSE S1

\* return value of stop_timer
stop_timer_result(S, step_index) ==
    IF ~HasTimer(S, step_index) THEN 0
    ELSE stop_timer(S, step_index).step_timers[step_index].elapsed

pause_timer(S, step_index) ==
    IF ~HasTimer(S, step_index) THEN S
    ELSE
      LET td == S.step_timers[step_index]
      IN IF ~td.paused
         THEN [S EXCEPT !.step_timers[step_index] =
                 [@ EXCEPT !.elapsed = @ + (S.now - td.start_time),
                           !.paused = TRUE]]
         ELSE S

get_elapsed_time(S, step_index) ==
    IF ~HasTimer(S, step_index) THEN 0
    ELSE LET td == S.step_timers[step_index]
         IN IF td.paused THEN td.elapsed
            ELSE td.elapsed + (S.now - td.start_time)

get_remaining_time(S, step_index) ==
    IF ~HasTimer(S, step_index) THEN 0
    ELSE S.step_timers[step_index].limit - get_elapsed_time(S, step_index)

\* get_timer_status with the tier boundaries closed on the milder side
get_timer_status_closed_above(S, step_index) ==
    IF ~HasTimer(S, step_index) THEN "normal"
    ELSE
      LET remaining == get_remaining_time(S, step_index)
          limit == S.step_timers[step_index].limit
      IN IF remaining < 0 THEN "overtime"
         ELSE IF limit <= 0 THEN "normal"
         ELSE IF remaining * 100 >= TIMER_WARNING_THRESHOLD * limit
              THEN "normal"
         ELSE IF remaining * 100 >= TIMER_CRITICAL_THRESHOLD * limit
              THEN "warning"
         ELSE "critical"

\* percentage > threshold, with percentage = remaining / limit * 100: for
\* whole seconds the float comparison decides as the exact one, written
\* here without division
get_timer_status(S, step_index) ==
    IF ~HasTimer(S, step_index) THEN "normal"
    ELSE
      LET remaining == get_remaining_time(S, step_index)
          limit == S.step_timers[step_index].limit
      IN IF remaining < 0 THEN "overtime"
         ELSE IF limit <= 0 THEN "normal"
         ELSE IF remaining * 100 > TIMER_WARNING_THRESHOLD * limit
              THEN "normal"
         ELSE IF remaining * 100 > TIMER_CRITICAL_THRESHOLD * limit
              THEN "warning"
         ELSE "critical"

clear_timer(S, step_index) ==
    IF HasTimer(S, step_index)
    THEN [S EXCEPT !.step_timers =
            [i \in (DOMAIN S.step_timers) \ {step_index} |-> S.step_timers[i]]]
    ELSE S

reset_all_timers(S) ==
    [S EXCEPT !.step_timers = <<>>, !.active_step_index = NoneIdx,
              !.update_timer = FALSE]

---------------------------------------------------------------------------
(* managers/navigation_manager.py *)

Verdict(allowed, reason) == [allowed |-> allowed, reason |-> reason]

REASON_RANGE == "Gecersiz adim numarasi"
REASON_SAME == "Zaten bu adimdasiniz"
REASON_ROLE == "Geri gitme yetkisi yok. Sadece yonetici geri gidebilir."

\* can_navigate_to without the role check on backward moves
can_navigate_to_any_role(current_index, target_index, total_steps, role) ==
    IF target_index < 0 \/ target_index >= total_steps
    THEN Verdict(FALSE, REASON_RANGE)
    ELSE IF target_index = current_index
    THEN Verdict(FALSE, REASON_SAME)
    ELSE Verdict(TRUE, "")

\* can_navigate_to with the upper range check off by one
can_navigate_to_off_by_one(current_index, target_index, total_steps, role) ==
    IF target_index < 0 \/ target_index > total_steps
    THEN Verdict(FALSE, REASON_RANGE)
    ELSE IF target_index = current_index
    THEN Verdict(FALSE, REASON_SAME)
    ELSE IF target_index < current_index
    THEN IF role = ADMIN THEN Verdict(TRUE, "")
         ELSE Verdict(FALSE, REASON_ROLE)
    ELSE Verdict(TRUE, "")

\* can_navigate_to without the check for the current index
can_navigate_to_no_same_check(current_index, target_index, total_steps, role) ==
    IF target_index < 0 \/ target_index >= total_steps
    THEN Verdict(FALSE, REASON_RANGE)
    ELSE IF target_index < current_index
    THEN IF role = ADMIN THEN Verdict(TRUE, "")
         ELSE Verdict(FALSE, REASON_ROLE)
    ELSE Verdict(TRUE, "")

\* can_navigate_to that lets a forward move skip no step
can_navigate_to_one_step_forward(current_index, target_index, total_steps, role) ==
    IF target_index < 0 \/ target_index >= total_steps
    THEN Verdict(FALSE, REASON_RANGE)
    ELSE IF target_index = current_index
    THEN Verdict(FALSE, REASON_SAME)
    ELSE IF target_index < current_index
    THEN IF role = ADMIN THEN Verdict(TRUE, "")
         ELSE Verdict(FALSE, REASON_ROLE)
    ELSE IF target_index > current_index + 1
    THEN Verdict(FALSE, REASON_RANGE)
    ELSE Verdict(TRUE, "")

can_navigate_to(current_index, target_index, total_steps, role) ==
    IF target_index < 0 \/ target_index >= total_steps
    THEN Verdict(FALSE, REASON_RANGE)
    ELSE IF target_index = current_index
    THEN Verdict(FALSE, REASON_SAME)
    ELSE IF target_index < current_index
    THEN IF role = ADMIN THEN Verdict(TRUE, "")
         ELSE Verdict(FALSE, REASON_ROLE)
    ELSE Verdict(TRUE, "")

\* determine_navigation_mode that ignores the status of the target
determine_navigation_mode_ignores_status(current_index, target_index, target_step_status) ==
    IF target_index < current_index THEN "view_only"
    ELSE IF target_index > current_index THEN "normal"
    ELSE "view_only"

determine_navigation_mode(current_index, target_index, target_step_status) ==
    IF target_index < current_index
    THEN IF target_step_status \in {"passed", "failed"}
         THEN "view_only" ELSE "normal"
    ELSE IF target_index > current_index THEN "normal"
    ELSE "view_only"

\* the entry's timestamp is not modelled
record_navigation(S, from_index, to_index) ==
    [S EXCEPT !.navigation_history =
        Append(@, [from |-> from_index, to |-> to_index])]

---------------------------------------------------------------------------
(* managers/result_manager.py *)

\* _determine_status that marks an invalid result as skipped
_determine_status_skips_invalid(input_type, is_valid) ==
    IF is_valid = "None" THEN "passed"
    ELSE IF is_valid = "True" THEN "passed"
    ELSE "skipped"

_determine_status(input_type, is_valid) ==
    IF is_valid = "None" THEN "passed"
    ELSE IF is_valid = "True" THEN "passed"
    ELSE "failed"

\* float(result_value) succeeds: numbers and numeric text parse, None and any
\* other string raise
Parses(v) == v.kind \in {"number", "text"}

PASS_FAIL_TOKENS ==
    {Token("PASS"), Token("FAIL"), Token("GECTI"), Token("KALDI")}

\* validate_result with the lower bound exclusive
validate_result_exclusive_min(input_type, result_value, validation_rules) ==
    IF input_type = "number"
    THEN /\ Parses(result_value)
         /\ ~(validation_rules.min # NoneInt
              /\ result_value.n <= validation_rules.min)
         /\ ~(validation_rules.max # NoneInt
              /\ result_value.n > validation_rules.max)
    ELSE IF input_type = "pass_fail"
    THEN result_value \in PASS_FAIL_TOKENS
    ELSE TRUE

validate_result(input_type, result_value, validation_rules) ==
    IF input_type = "number"
    THEN /\ Parses(result_value)
         /\ ~(validation_rules.min # NoneInt
              /\ result_value.n < validation_rules.min)
         /\ ~(validation_rules.max # NoneInt
              /\ result_value.n > validation_rules.max)
    ELSE IF input_type = "pass_fail"
    THEN result_value \in PASS_FAIL_TOKENS
    ELSE TRUE

save_result_final_value(result_value, checkbox_value) ==
    IF Truthy(checkbox_value) THEN checkbox_value
    ELSE IF Truthy(result_value) THEN result_value
    ELSE Absent

\* save_result that emits result_changed on every call
save_result_always_changed(S, step_index, result_value, checkbox_value, comment, is_valid, actual_duration) ==
    LET step == S.steps[step_index + 1]
        old_value == step.result_value
        final_value == save_result_final_value(result_value, checkbox_value)
        status == _determine_status(step.input_type, is_valid)
        S1 == [S EXCEPT !.steps[step_index + 1] =
                 [@ EXCEPT !.result_value = final_value,
                           !.comment = comment,
                           !.actual_duration = actual_duration,
                           !.status = status]]
        S2 == Emit(S1, Event("result_changed", step_index, 0, "",
                             final_value, old_value))
    IN Emit(S2, Event("result_saved", step_index, 0, status,
                      final_value, Absent))

save_result(S, step_index, result_value, checkbox_value, comment, is_valid, actual_duration) ==
    LET step == S.steps[step_index + 1]
        old_value == step.result_value
        final_value == save_result_final_value(result_value, checkbox_value)
        status == _determine_status(step.input_type, is_valid)
        S1 == [S EXCEPT !.steps[step_index + 1] =
                 [@ EXCEPT !.result_value = final_value,
                           !.comment = comment,
                           !.actual_duration = actual_duration,
                           !.status = status]]
        S2 == IF old_value # final_value
              THEN Emit(S1, Event("result_changed", step_index, 0, "",
                                  final_value, old_value))
              ELSE S1
    IN Emit(S2, Event("result_saved", step_index, 0, status,
                      final_value, Absent))

---------------------------------------------------------------------------
(* ui/main_window.py -- slots connected to the TestManager signals *)

FreshWidget(input_type) ==
    [type |-> IF input_type \in {"number", "pass_fail"} THEN input_type
              ELSE "none",
     written |-> FALSE, text |-> Absent]

_on_step_changed(S, step_index) ==
    IF S.current_step_index < 0 \/ S.current_step_index >= Len(S.steps)
    THEN S
    ELSE [S EXCEPT
            !.input_widget =
                FreshWidget(S.steps[S.current_step_index + 1].input_type),
            !.sidebar = [@ EXCEPT !.current_step_index = step_index]]

---------------------------------------------------------------------------
(* managers/test_manager.py *)

get_role(S) == IF S.user_role = "none" THEN "None" ELSE S.user_role

\* navigate_to_step that stops the current timer before it validates
navigate_to_step_stops_first(S, target_index, mode) ==
    LET verdict == can_navigate_to(S.current_step_index, target_index,
                                   Len(S.steps), get_role(S))
        S1 == IF S.current_step_index >= 0
              THEN stop_timer(S, S.current_step_index) ELSE S
    IN
    IF ~verdict.allowed
    THEN Emit(S1, Event("navigation_blocked", 0, 0, verdict.reason,
                        Absent, Absent))
    ELSE
      LET S2 == IF S.current_step_index >= 0
                THEN record_navigation(S1, S.current_step_index, target_index)
                ELSE S1
          S3 == [S2 EXCEPT !.current_step_index = target_index,
                           !.current_mode = mode]
          target_step == S3.steps[target_index + 1]
          S4 == IF target_step.status = "not_started"
                THEN [S3 EXCEPT !.steps[target_index + 1] =
                        [@ EXCEPT !.status = "in_progress",
                                  !.start_time = S.now]]
                ELSE S3
          S5 == _on_step_changed(
                  Emit(S4, Event("step_changed", target_index, Len(S.steps),
                                 mode, Absent, Absent)),
                  target_index)
      IN IF mode = "normal"
         THEN start_timer(S5, target_index, target_step.time_limit)
         ELSE S5

\* navigate_to_step that starts the timer of the target in every mode
navigate_to_step_always_starts_timer(S, target_index, mode) ==
    LET verdict == can_navigate_to(S.current_step_index, target_index,
                                   Len(S.steps), get_role(S))
    IN
    IF ~verdict.allowed
    THEN Emit(S, Event("navigation_blocked", 0, 0, verdict.reason,
                       Absent, Absent))
    ELSE
      LET S1 == IF S.current_step_index >= 0
                THEN stop_timer(S, S.current_step_index) ELSE S
          S2 == IF S.current_step_index >= 0
                THEN record_navigation(S1, S.current_step_index, target_index)
                ELSE S1
          S3 == [S2 EXCEPT !.current_step_index = target_index,
                           !.current_mode = mode]
          target_step == S3.steps[target_index + 1]
          S4 == IF target_step.status = "not_started"
                THEN [S3 EXCEPT !.steps[target_index + 1] =
                        [@ EXCEPT !.status = "in_progress",
                                  !.start_time = S.now]]
                ELSE S3
          S5 == _on_step_changed(
                  Emit(S4, Event("step_changed", target_index, Len(S.steps),
                                 mode, Absent, Absent)),
                  target_index)
      IN start_timer(S5, target_index, target_step.time_limit)

\* navigate_to_step that writes the start timestamp on every entry
navigate_to_step_restamps(S, target_index, mode) ==
    LET verdict == can_navigate_to(S.current_step_index, target_index,
                                   Len(S.steps), get_role(S))
    IN
    IF ~verdict.allowed
    THEN Emit(S, Event("navigation_blocked", 0, 0, verdict.reason,
                       Absent, Absent))
    ELSE
      LET S1 == IF S.current_step_index >= 0
                THEN stop_timer(S, S.current_step_index) ELSE S
          S2 == IF S.current_step_index >= 0
                THEN record_navigation(S1, S.current_step_index, target_index)
                ELSE S1
          S3 == [S2 EXCEPT !.current_step_index = target_index,
                           !.current_mode = mode]
          target_step == S3.steps[target_index + 1]
          S4 == IF target_step.status = "not_started"
                THEN [S3 EXCEPT !.steps[target_index + 1] =
                        [@ EXCEPT !.status = "in_progress",
                                  !.start_time = S.now]]
                ELSE [S3 EXCEPT !.steps[target_index + 1].start_time =
                        S.now]
          S5 == _on_step_changed(
                  Emit(S4, Event("step_changed", target_index, Len(S.steps),
                                 mode, Absent, Absent)),
                  target_index)
      IN IF mode = "normal"
         THEN start_timer(S5, target_index, target_step.time_limit)
         ELSE S5

navigate_to_step(S, target_index, mode) ==
    LET verdict == can_navigate_to(S.current_step_index, target_index,
                                   Len(S.steps), get_role(S))
    IN
    IF ~verdict.allowed
    THEN Emit(S, Event("navigation_blocked", 0, 0, verdict.reason,
                       Absent, Absent))
    ELSE
      LET S1 == IF S.current_step_index >= 0
                THEN stop_timer(S, S.current_step_index) ELSE S
          S2 == IF S.current_step_index >= 0
                THEN record_navigation(S1, S.current_step_index, target_index)
                ELSE S1
          S3 == [S2 EXCEPT !.current_step_index = target_index,
                           !.current_mode = mode]
          target_step == S3.steps[target_index + 1]
          S4 == IF target_step.status = "not_started"
                THEN [S3 EXCEPT !.steps[target_index + 1] =
                        [@ EXCEPT !.status = "in_progress",
                                  !.start_time = S.now]]
                ELSE S3
          S5 == _on_step_changed(
                  Emit(S4, Event("step_changed", target_index, Len(S.steps),
                                 mode, Absent, Absent)),
                  target_index)
      IN IF mode = "normal"
         THEN start_timer(S5, target_index, target_step.time_limit)
         ELSE S5

\* the program state at the moment navigate_to_step emits step_changed on
\* an allowed navigation: everything up to the emit has been done, the
\* subscribers and start_timer have not run yet
state_at_step_changed(S, target_index, mode) ==
    LET S1 == IF S.current_step_index >= 0
              THEN stop_timer(S, S.current_step_index) ELSE S
        S2 == IF S.current_step_index >= 0
              THEN record_navigation(S1, S.current_step_index, target_index)
              ELSE S1
        S3 == [S2 EXCEPT !.current_step_index = target_index,
                         !.current_mode = mode]
        target_step == S3.steps[target_index + 1]
        S4 == IF target_step.status = "not_started"
              THEN [S3 EXCEPT !.steps[target_index + 1] =
                      [@ EXCEPT !.status = "in_progress",
                                !.start_time = S.now]]
              ELSE S3
    IN Emit(S4, Event("step_changed", target_index, Len(S.steps),
                      mode, Absent, Absent))

\* _complete_test that does not write the session end timestamp
_complete_test_no_end_time(S) ==
    LET S1 == stop_timer(S, S.current_step_index)
    IN Emit([S1 EXCEPT !.test_completed_count = @ + 1],
            Event("test_completed", 0, 0, "", Absent, Absent))

_complete_test(S) ==
    LET S1 == stop_timer(S, S.current_step_index)
        S2 == IF S1.session.loaded
              THEN [S1 EXCEPT !.session.end_time = S.now,
                              !.end_time_writes = @ + 1]
              ELSE S1
    IN Emit([S2 EXCEPT !.test_completed_count = @ + 1],
            Event("test_completed", 0, 0, "", Absent, Absent))

\* navigate_next that takes the last but one step for the last
navigate_next_off_by_one(S) ==
    IF S.current_step_index < Len(S.steps) - 2
    THEN navigate_to_step(S, S.current_step_index + 1, "normal")
    ELSE _complete_test(S)

navigate_next(S) ==
    IF S.current_step_index < Len(S.steps) - 1
    THEN navigate_to_step(S, S.current_step_index + 1, "normal")
    ELSE _complete_test(S)

navigate_previous(S) ==
    IF S.current_step_index > 0
    THEN navigate_to_step(S, S.current_step_index - 1, "view_only")
    ELSE S

\* start_test that does not write the session start timestamp
start_test_no_start_time(S) ==
    IF Len(S.steps) = 0 THEN S
    ELSE navigate_to_step(S, 0, "normal")

start_test(S) ==
    IF Len(S.steps) = 0 THEN S
    ELSE LET S1 == IF S.session.loaded
                   THEN [S EXCEPT !.session.start_time = S.now]
                   ELSE S
         IN navigate_to_step(S1, 0, "normal")

\* return value of start_test
start_test_result(S) == Len(S.steps) # 0

\* submit_result that moves on before it emits result_submitted
submit_result_emits_last(S, result_value, checkbox_value, comment, is_valid) ==
    IF S.current_step_index < 0 \/ S.current_step_index >= Len(S.steps)
    THEN S
    ELSE
      LET actual_duration == get_elapsed_time(S, S.current_step_index)
          S1 == save_result(S, S.current_step_index, result_value,
                            checkbox_value, comment, is_valid,
                            actual_duration)
          status == S1.steps[S.current_step_index + 1].status
          S2 == stop_timer(S1, S.current_step_index)
          final_value == IF Truthy(checkbox_value) THEN checkbox_value
                         ELSE result_value
      IN Emit(navigate_next(S2),
              Event("result_submitted", S.current_step_index, 0, status,
                    final_value, Absent))

\* submit_result that closes the session when there is no current step
submit_result_completes_without_step(S, result_value, checkbox_value, comment, is_valid) ==
    IF S.current_step_index < 0 \/ S.current_step_index >= Len(S.steps)
    THEN _complete_test(S)
    ELSE
      LET actual_duration == get_elapsed_time(S, S.current_step_index)
          S1 == save_result(S, S.current_step_index, result_value,
                            checkbox_value, comment, is_valid,
                            actual_duration)
          status == S1.steps[S.current_step_index + 1].status
          S2 == stop_timer(S1, S.current_step_index)
          final_value == IF Truthy(checkbox_value) THEN checkbox_value
                         ELSE result_value
          S3 == Emit(S2, Event("result_submitted", S.current_step_index, 0,
                               status, final_value, Absent))
      IN navigate_next(S3)

submit_result(S, result_value, checkbox_value, comment, is_valid) ==
    IF S.current_step_index < 0 \/ S.current_step_index >= Len(S.steps)
    THEN S
    ELSE
      LET actual_duration == get_elapsed_time(S, S.current_step_index)
          S1 == save_result(S, S.current_step_index, result_value,
                            checkbox_value, comment, is_valid,
                            actual_duration)
          status == S1.steps[S.current_step_index + 1].status
          S2 == stop_timer(S1, S.current_step_index)
          final_value == IF Truthy(checkbox_value) THEN checkbox_value
                         ELSE result_value
          S3 == Emit(S2, Event("result_submitted", S.current_step_index, 0,
                               status, final_value, Absent))
      IN navigate_next(S3)

\* _on_timer_tick that closes the session when the time has run out
TestManager_on_timer_tick_ends_on_overtime(S, step_index, remaining, status) ==
    IF step_index = S.current_step_index
    THEN LET S1 == Emit(S, Event("timer_updated", 0, remaining, status,
                                 Absent, Absent))
         IN IF remaining < 0 THEN _complete_test(S1) ELSE S1
    ELSE S

TestManager_on_timer_tick(S, step_index, remaining, status) ==
    IF step_index = S.current_step_index
    THEN Emit(S, Event("timer_updated", 0, remaining, status, Absent, Absent))
    ELSE S

\* QTimer timeout: TimerManager._on_timer_tick and the connected slot
TimerManager_on_timer_tick(S) ==
    IF S.active_step_index = NoneIdx THEN S
    ELSE LET remaining == get_remaining_time(S, S.active_step_index)
             status == get_timer_status(S, S.active_step_index)
         IN TestManager_on_timer_tick(
              Emit(S, Event("timer_tick", S.active_step_index, remaining,
                            status, Absent, Absent)),
              S.active_step_index, remaining, status)

---------------------------------------------------------------------------
(* ui/widgets/progress_navigator.py, ui/widgets/content/ *)

\* ProgressNavigator._on_step_clicked: does the click emit step_clicked?
sidebar_click_emits(S, index) ==
    /\ S.sidebar.clickable
    /\ index # S.sidebar.current_step_index
    /\ index >= 0 /\ index < Len(S.steps)
    /\ \/ index < S.sidebar.current_step_index
       \/ S.steps[index + 1].status \in {"passed", "failed"}

\* MainWindow._on_sidebar_step_clicked
_on_sidebar_step_clicked(S, step_index) ==
    navigate_to_step(S, step_index, "view_only")

\* _check_number_range with the upper bound exclusive
_check_number_range_exclusive_max(validation, value) ==
    ~(validation.min # NoneInt /\ value < validation.min)
    /\ ~(validation.max # NoneInt /\ value >= validation.max)

\* NumberInputWidget._check_number_range
_check_number_range(validation, value) ==
    ~(validation.min # NoneInt /\ value < validation.min)
    /\ ~(validation.max # NoneInt /\ value > validation.max)

\* NumberInputWidget._on_write_clicked / PassFailInputWidget._on_write_clicked
_on_write_clicked(S, text) ==
    [S EXCEPT !.input_widget = [@ EXCEPT !.written = TRUE, !.text = text]]

\* NumberInputWidget.get_result: (result_value, is_valid)
NumberInputWidget_get_result(validation, result_text) ==
    IF result_text.kind = "absent" THEN <<Absent, "False">>
    ELSE IF result_text.kind = "text"
    THEN <<result_text,
           IF _check_number_range(validation, result_text.n)
           THEN "True" ELSE "False">>
    ELSE <<result_text, "False">>

\* PassFailInputWidget.get_result: (checkbox_value, is_valid)
PassFailInputWidget_get_result(result_text) ==
    IF result_text = Token("GECTI") THEN <<Token("PASS"), "True">>
    ELSE IF result_text = Token("KALDI") THEN <<Token("FAIL"), "False">>
    ELSE <<Absent, "False">>

\* ContentWidget._get_result_values: (result_value, checkbox_value, is_valid)
_get_result_values(S) ==
    LET w == S.input_widget
        validation == S.steps[S.current_step_index + 1].input_validation
    IN IF w.type = "number"
       THEN LET r == NumberInputWidget_get_result(validation, w.text)
            IN <<r[1], Absent, r[2]>>
       ELSE IF w.type = "pass_fail"
       THEN LET r == PassFailInputWidget_get_result(w.text)
            IN <<Absent, r[1], r[2]>>
       ELSE <<Absent, Absent, "False">>

\* MainWindow._on_user_submit_result
_on_user_submit_result(S, result_value, checkbox_value, comment, is_valid) ==
    LET S1 == IF comment # ""
              THEN [S EXCEPT !.steps[S.current_step_index + 1].comment =
                                comment]
              ELSE S
    IN submit_result(S1, result_value, checkbox_value, comment, is_valid)

\* ContentWidget._on_proceed_clicked: does the click emit result_submitted?
proceed_emits(S) ==
    \/ S.input_widget.type = "none"
    \/ S.input_widget.written

_on_proceed_clicked(S, comment) ==
    IF S.input_widget.type = "none"
    THEN _on_user_submit_result(S, Absent, Absent, comment, "None")
    ELSE IF ~S.input_widget.written THEN S
    ELSE LET r == _get_result_values(S)
         IN _on_user_submit_result(S, r[1], r[2], comment, r[3])

\* MainWindow._on_user_switched after AuthManager changed the role
_on_user_switched(S, new_role) ==
    [S EXCEPT !.user_role = new_role,
              !.sidebar = [@ EXCEPT !.clickable = (new_role = ADMIN)]]

---------------------------------------------------------------------------
(* models/test_step.py, models/test_session.py: snapshots *)

\* TestStep._format_timestamp: None stays None, a timestamp becomes a
\* formatted date string
_format_timestamp(timestamp) ==
    IF timestamp = NoneInt THEN Absent
    ELSE [kind |-> "formatted", n |-> timestamp]

TestStep_to_dict(step) ==
    [time_limit |-> step.time_limit,
     input_type |-> step.input_type,
     input_validation |-> step.input_validation,
     status |-> step.status,
     result_value |-> step.result_value,
     actual_duration |-> step.actual_duration,
     start_time |-> _format_timestamp(step.start_time),
     comment |-> step.comment]

\* TestStep.from_dict that does not restore the duration
TestStep_from_dict_no_duration(data) ==
    [input_type |-> data.input_type,
     time_limit |-> data.time_limit,
     input_validation |-> data.input_validation,
     status |-> data.status,
     result_value |-> data.result_value,
     actual_duration |-> NoneInt,
     start_time |-> NoneInt,
     comment |-> data.comment]

\* the constructor leaves start_time None and from_dict does not read the
\* 'start_time' key
TestStep_from_dict(data) ==
    [input_type |-> data.input_type,
     time_limit |-> data.time_limit,
     input_validation |-> data.input_validation,
     status |-> data.status,
     result_value |-> data.result_value,
     actual_duration |-> data.actual_duration,
     start_time |-> NoneInt,
     comment |-> data.comment]

\* datetime.isoformat of a session timestamp, None when it is not set
isoformat(timestamp) ==
    IF timestamp = NoneInt THEN Absent
    ELSE [kind |-> "iso", n |-> timestamp]

\* `if data.get(key): datetime.fromisoformat(data[key])`
fromisoformat(value) ==
    IF value.kind = "iso" THEN value.n ELSE NoneInt

\* TestSession.to_dict of the session of S; the derived entries that
\* from_dict never reads (duration_seconds, completion_percentage,
\* passed_count, failed_count) and the identification strings are left out
TestSession_to_dict(S) ==
    [start_time |-> isoformat(S.session.start_time),
     end_time |-> isoformat(S.session.end_time),
     steps |-> [i \in DOMAIN S.steps |-> TestStep_to_dict(S.steps[i])]]

TestSession_from_dict(data) ==
    [start_time |-> fromisoformat(data.start_time),
     end_time |-> fromisoformat(data.end_time),
     steps |-> [i \in DOMAIN data.steps |-> TestStep_from_dict(data.steps[i])]]

---------------------------------------------------------------------------
(* ui/dialogs/test_step_editor_dialog.py, MainWindow._on_steps_updated *)

\* one dictionary of TestStepEditorDialog._create_step_dicts: the runtime
\* state is copied, the 'start_time' key is not written
_create_step_dict(step) ==
    [time_limit |-> step.time_limit,
     input_type |-> step.input_type,
     input_validation |-> step.input_validation,
     status |-> step.status,
     result_value |-> step.result_value,
     actual_duration |-> step.actual_duration,
     comment |-> step.comment]

_create_step_dicts(test_steps) ==
    [i \in DOMAIN test_steps |-> _create_step_dict(test_steps[i])]

\* the dictionary _on_add_step appends
NEW_STEP_TIME_LIMIT == 60

new_step ==
    [time_limit |-> NEW_STEP_TIME_LIMIT,
     input_type |-> "none",
     input_validation |-> [min |-> NoneInt, max |-> NoneInt],
     status |-> "not_started",
     result_value |-> Absent,
     actual_duration |-> NoneInt,
     comment |-> ""]

_on_add_step(dicts, is_developer) ==
    IF ~is_developer THEN dicts ELSE Append(dicts, new_step)

\* the row at the 0-based index is removed unless it is the only one
_on_delete_step(dicts, index, is_developer) ==
    IF ~is_developer THEN dicts
    ELSE IF index < 0 \/ Len(dicts) <= 1 THEN dicts
    ELSE [i \in 1..(Len(dicts) - 1) |->
            IF i <= index THEN dicts[i] ELSE dicts[i + 1]]

\* MainWindow._on_steps_updated: the list of the orchestrator, which the
\* session shares, is replaced; current_step_index and the timers are left
\* as they are
_on_steps_updated(S, updated_steps) ==
    [S EXCEPT !.steps = [i \in DOMAIN updated_steps |->
                           TestStep_from_dict(updated_steps[i])]]

---------------------------------------------------------------------------
(* The state machine *)

\* the program state at the start of a call; no signal emitted yet
Cur ==
    [steps |-> steps, current_step_index |-> current_step_index,
     step_timers |-> step_timers, active_step_index |-> active_step_index,
     update_timer |-> update_timer,
     navigation_history |-> navigation_history, session |-> session,
     user_role |-> user_role, now |-> now, emitted |-> <<>>,
     test_completed_count |-> test_completed_count,
     end_time_writes |-> end_time_writes, current_mode |-> current_mode,
     sidebar |-> sidebar, input_widget |-> input_widget]

Becomes(S) ==
    /\ steps' = S.steps
    /\ current_step_index' = S.current_step_index
    /\ step_timers' = S.step_timers
    /\ active_step_index' = S.active_step_index
    /\ update_timer' = S.update_timer
    /\ navigation_history' = S.navigation_history
    /\ session' = S.session
    /\ user_role' = S.user_role
    /\ now' = S.now
    /\ emitted' = S.emitted
    /\ test_completed_count' = S.test_completed_count
    /\ end_time_writes' = S.end_time_writes
    /\ current_mode' = S.current_mode
    /\ sidebar' = S.sidebar
    /\ input_widget' = S.input_widget

\* TestStep.__init__ for the step definition at a 0-based position: the
\* catalogue cycles through the input types
StepDefinition(i) ==
    [input_type |-> CASE i % 3 = 0 -> "number"
                      [] i % 3 = 1 -> "pass_fail"
                      [] OTHER -> "none",
     time_limit |-> 1 + (i % 2),
     input_validation |-> IF i % 3 = 0 THEN [min |-> 1, max |-> 2]
                          ELSE [min |-> NoneInt, max |-> NoneInt],
     status |-> "not_started", result_value |-> Absent,
     actual_duration |-> NoneInt, start_time |-> NoneInt, comment |-> ""]

\* a catalogue of n steps whose first step is definition `first`
CatalogFrom(first, n) == [i \in 1..n |-> StepDefinition(first + i - 1)]

Catalog(n) == CatalogFrom(0, n)

Roles == {"none", OPERATOR, ADMIN, DEVELOPER}

\* TestManager.__init__, load_test_from_file and MainWindow.__init__ for a
\* loaded catalogue
InitState(catalog) ==
    /\ steps = catalog
    /\ session = [loaded |-> Len(catalog) > 0, start_time |-> NoneInt,
                  end_time |-> NoneInt]
    /\ current_step_index = -1
    /\ step_timers = <<>>
    /\ active_step_index = NoneIdx
    /\ update_timer = FALSE
    /\ navigation_history = <<>>
    /\ user_role \in Roles
    /\ now = 0
    /\ emitted = <<>>
    /\ test_completed_count = 0
    /\ end_time_writes = 0
    /\ current_mode = "normal"
    /\ sidebar = [clickable |-> (user_role = ADMIN), current_step_index |-> -1]
    /\ input_widget = FreshWidget("none")

Init == \E n \in 0..MaxSteps : InitState(Catalog(n))

\* the model stops taking calls once the history or the completion count
\* reaches its bound
WithinBounds ==
    /\ Len(navigation_history) < MaxHistory
    /\ test_completed_count < MaxCompletions

\* arguments of submit_result: (result_value, checkbox_value, comment,
\* is_valid)
SubmitInputs ==
    { <<Num(2), Absent, "", "True">>,
      <<Absent, Token("FAIL"), "c", "False">>,
      <<Absent, Absent, "", "None">> }

StartTest ==
    /\ WithinBounds
    /\ Becomes(start_test(Cur))

NavigateToStep ==
    /\ WithinBounds
    /\ \E target \in -1..MaxSteps, mode \in {"normal", "view_only"} :
         Becomes(navigate_to_step(Cur, target, mode))

NavigateNext ==
    /\ WithinBounds
    /\ Becomes(navigate_next(Cur))

NavigatePrevious ==
    /\ WithinBounds
    /\ Becomes(navigate_previous(Cur))

SubmitResult ==
    /\ WithinBounds
    /\ \E a \in SubmitInputs :
         Becomes(submit_result(Cur, a[1], a[2], a[3], a[4]))

TimerTick ==
    /\ update_timer
    /\ Becomes(TimerManager_on_timer_tick(Cur))

AdvanceTime ==
    /\ now < MaxTime
    /\ Becomes([Cur EXCEPT !.now = @ + 1])

SwitchUser ==
    /\ user_role # "none"
    /\ \E r \in {OPERATOR, ADMIN, DEVELOPER} :
         /\ r # user_role
         /\ Becomes(_on_user_switched(Cur, r))

Next ==
    \/ StartTest
    \/ NavigateToStep
    \/ NavigateNext
    \/ NavigatePrevious
    \/ SubmitResult
    \/ TimerTick
    \/ AdvanceTime

Spec == Init /\ [][Next]_vars

---------------------------------------------------------------------------
(* TimerManager driven directly, without the orchestrator's hand-off *)

TimerLimits == {1, 2}

TStart ==
    \E i \in 0..(MaxSteps - 1), limit \in TimerLimits :
        Becomes(start_timer(Cur, i, limit))

TStop ==
    \E i \in 0..(MaxSteps - 1) : Becomes(stop_timer(Cur, i))

TPause ==
    \E i \in 0..(MaxSteps - 1) : Becomes(pause_timer(Cur, i))

TClear ==
    \E i \in 0..(MaxSteps - 1) : Becomes(clear_timer(Cur, i))

TReset == Becomes(reset_all_timers(Cur))

NextTimer ==
    \/ TStart
    \/ TStop
    \/ TPause
    \/ TClear
    \/ TReset
    \/ TimerTick
    \/ AdvanceTime

\* TimerManager.__init__ on its own: no procedure is loaded and no user is
\* logged in; the engine reads neither
InitTimer ==
    /\ Init
    /\ steps = <<>>
    /\ user_role = "none"

SpecTimer == InitTimer /\ [][NextTimer]_vars

---------------------------------------------------------------------------
(* The program driven through the window: main.py and MainWindow *)

\* main.py starts the loaded procedure once, before the window is shown
UIStartTest ==
    /\ WithinBounds
    /\ current_step_index = -1
    /\ session.loaded /\ Len(steps) > 0
    /\ Becomes(start_test(Cur))

\* YAZ button of the current input widget
UIWrite ==
    /\ input_widget.type # "none"
    /\ \E text \in IF input_widget.type = "number"
                   THEN {Text(2), Text(3)}
                   ELSE {Token("GECTI"), Token("KALDI")} :
         Becomes(_on_write_clicked(Cur, text))

\* Ilerle button
UIProceed ==
    /\ WithinBounds
    /\ current_step_index >= 0
    /\ current_step_index < Len(steps)
    /\ proceed_emits(Cur)
    /\ \E c \in {"", "c"} : Becomes(_on_proceed_clicked(Cur, c))

UISidebarClick ==
    /\ WithinBounds
    /\ \E index \in 0..(MaxSteps - 1) :
         /\ sidebar_click_emits(Cur, index)
         /\ Becomes(_on_sidebar_step_clicked(Cur, index))

NextUI ==
    \/ UIStartTest
    \/ UIWrite
    \/ UIProceed
    \/ UISidebarClick
    \/ SwitchUser
    \/ TimerTick
    \/ AdvanceTime

SpecUI == Init /\ [][NextUI]_vars

---------------------------------------------------------------------------
(* One timer watched while its budget runs out: start_timer(0, budget) on a
   fresh TimerManager, then ticks at some later instant *)

\* the program state right after construction, nothing loaded
Constructed ==
    [steps |-> <<>>, current_step_index |-> -1, step_timers |-> <<>>,
     active_step_index |-> NoneIdx, update_timer |-> FALSE,
     navigation_history |-> <<>>,
     session |-> [loaded |-> FALSE, start_time |-> NoneInt,
                  end_time |-> NoneInt],
     user_role |-> "none", now |-> 0, emitted |-> <<>>,
     test_completed_count |-> 0, end_time_writes |-> 0,
     current_mode |-> "normal",
     sidebar |-> [clickable |-> FALSE, current_step_index |-> -1],
     input_widget |-> FreshWidget("none")]

\* the variables hold the program state S
Is(S) ==
    /\ steps = S.steps
    /\ current_step_index = S.current_step_index
    /\ step_timers = S.step_timers
    /\ active_step_index = S.active_step_index
    /\ update_timer = S.update_timer
    /\ navigation_history = S.navigation_history
    /\ session = S.session
    /\ user_role = S.user_role
    /\ now = S.now
    /\ emitted = S.emitted
    /\ test_completed_count = S.test_completed_count
    /\ end_time_writes = S.end_time_writes
    /\ current_mode = S.current_mode
    /\ sidebar = S.sidebar
    /\ input_widget = S.input_widget

\* a timer started at instant 0 with any budget, seen at any instant up to
\* one second past the budget
InitTier ==
    \E budget \in 1..MaxBudget, t \in 0..(MaxBudget + 1) :
        /\ t <= budget + 1
        /\ Is([start_timer(Constructed, 0, budget) EXCEPT !.now = t])

NextTier == TimerTick

SpecTier == InitTier /\ [][NextTier]_vars

---------------------------------------------------------------------------
(* A session driven by submissions alone: start_test once, then only
   submit_result *)

SessionStart ==
    /\ current_step_index = -1
    /\ StartTest

NextSession ==
    \/ SessionStart
    \/ SubmitResult
    \/ TimerTick
    \/ AdvanceTime

\* any procedure file: the catalogue may begin with a step of any input type
InitSession ==
    \E n \in 0..MaxSteps, first \in 0..2 : InitState(CatalogFrom(first, n))

SpecSession == InitSession /\ [][NextSession]_vars

---------------------------------------------------------------------------
(* The navigation calls alone, with the clock standing still *)

NextNavigation ==
    \/ StartTest
    \/ NavigateToStep
    \/ NavigateNext
    \/ NavigatePrevious
    \/ TimerTick

SpecNavigation == Init /\ [][NextNavigation]_vars

---------------------------------------------------------------------------
(* The window with the step editor of the Developer menu *)

\* Developer menu, edit steps: the dialog is opened on the loaded steps, the
\* user adds a step, deletes the selected one or changes nothing, and saves
UIEditSteps ==
    /\ Len(steps) > 0
    /\ user_role \in {DEVELOPER, ADMIN}
    /\ LET dicts == _create_step_dicts(steps)
           is_developer == (user_role = DEVELOPER)
       IN \/ Becomes(_on_steps_updated(Cur, dicts))
          \/ /\ Len(steps) < MaxSteps
             /\ Becomes(_on_steps_updated(Cur,
                           _on_add_step(dicts, is_developer)))
          \/ \E index \in 0..(Len(steps) - 1) :
                Becomes(_on_steps_updated(Cur,
                          _on_delete_step(dicts, index, is_developer)))

NextEditor ==
    \/ UIStartTest
    \/ UIWrite
    \/ UIProceed
    \/ UIEditSteps
    \/ TimerTick
    \/ AdvanceTime

SpecEditor == Init /\ [][NextEditor]_vars

---------------------------------------------------------------------------
(* Helpers of the properties *)

Running(timers) == {i \in DOMAIN timers : ~timers[i].paused}

Emitted(sig) == {k \in 1..Len(emitted) : emitted[k].sig = sig}

Blocked(reason) ==
    Event("navigation_blocked", 0, 0, reason, Absent, Absent)

\* the result fields of a step record
ResultOf(step) ==
    <<step.status, step.result_value, step.comment, step.actual_duration>>

---------------------------------------------------------------------------
(* C1 .. C10 *)

\* C1: in every state reachable through TestManager operations every timer
\* whose index differs from current_step_index is paused, and its elapsed
\* value does not change while it is not the current index; so at most one
\* timer runs and a running timer belongs to current_step_index.
C1_OnlyCurrentTimerRuns ==
    /\ [](\A i \in DOMAIN step_timers :
            i # current_step_index => step_timers[i].paused)
    /\ [][\A i \in DOMAIN step_timers :
            (i # current_step_index /\ i # current_step_index')
            => /\ i \in DOMAIN step_timers'
               /\ get_elapsed_time(Cur, i)' = get_elapsed_time(Cur, i)]_vars

C1_Witness ==
    /\ current_step_index \in Running(step_timers)
    /\ \E i \in DOMAIN step_timers :
         /\ i # current_step_index
         /\ step_timers[i].paused
         /\ step_timers[i].elapsed > 0
         /\ now > step_timers[i].start_time + step_timers[i].elapsed

\* C2 (as claimed): after any sequence of start_timer / stop_timer /
\* pause_timer calls at most one timer state is running.
C2_SingleRunning == Cardinality(Running(step_timers)) <= 1

\* C2 (amended): the Timer Engine keeps a single active index, not a single
\* running timer: a call makes at most one timer running, that timer is the
\* active index after the call, and no other timer is stopped by it; at most
\* one timer runs when no timer was running before the call.
C2_SingleActive ==
    [][/\ Running(step_timers') \ Running(step_timers) # {}
          => \E i \in DOMAIN step_timers' :
               /\ Running(step_timers') = Running(step_timers) \cup {i}
               /\ active_step_index' = i
       /\ Running(step_timers) = {}
          => Cardinality(Running(step_timers')) <= 1]_vars

C2_Witness ==
    /\ Cardinality(Running(step_timers)) = 2
    /\ active_step_index \in Running(step_timers)

\* C3: for a role without the backward-navigation capability every target
\* with 0 <= target < current is refused by can_navigate_to, and no call made
\* under such a role decreases current_step_index.
C3_NoBackwardWithoutCapability ==
    /\ [](~can_navigate_back(user_role)
          => \A target \in 0..(current_step_index - 1) :
               ~can_navigate_to(current_step_index, target, Len(steps),
                                get_role(Cur)).allowed)
    /\ [][~can_navigate_back(user_role)
          => current_step_index' >= current_step_index]_vars

C3_Witness ==
    /\ ~can_navigate_back(user_role)
    /\ current_step_index >= 1
    /\ emitted = <<Blocked(REASON_ROLE)>>

\* C4: can_navigate_to allows every backward move (0 <= target < current)
\* for every role for which can_navigate_back is true (admin and developer).
C4_BackwardForCapableRoles ==
    can_navigate_back(user_role)
    => \A target \in 0..(current_step_index - 1) :
         can_navigate_to(current_step_index, target, Len(steps),
                         get_role(Cur)).allowed

\* C5: a target < 0 or >= totalSteps is refused for every role and every
\* current index, with the range reason, also when it equals the current
\* index (the range check comes first).
C5_OutOfRangeRefused ==
    \A role \in {"None", OPERATOR, ADMIN, DEVELOPER},
       current \in {current_step_index, -1, Len(steps)},
       target \in {-2, -1, Len(steps), Len(steps) + 1} :
        can_navigate_to(current, target, Len(steps), role)
            = Verdict(FALSE, REASON_RANGE)

C5_Witness ==
    /\ emitted = <<Blocked(REASON_RANGE)>>
    /\ current_step_index >= 0
    /\ Len(navigation_history) > 0

\* C6: a navigate_to_step request that the Navigation Authority refuses
\* changes no state (index, step records, timers, active timer, history,
\* session) and emits exactly one navigation_blocked and nothing else.
C6_RejectionChangesNothing ==
    \A target \in -1..MaxSteps, mode \in NavigationMode :
        LET verdict == can_navigate_to(current_step_index, target,
                                       Len(steps), get_role(Cur))
        IN ~verdict.allowed
           => navigate_to_step(Cur, target, mode)
                = [Cur EXCEPT !.emitted = <<Blocked(verdict.reason)>>]

C6_Witness ==
    /\ Emitted("navigation_blocked") = {1}
    /\ Len(emitted) = 1
    /\ active_step_index = current_step_index
    /\ current_step_index >= 1

\* C7: the session completes exactly once: test_completed is emitted once
\* and the end timestamp is written once, whatever calls follow.
C7_CompletedOnce ==
    /\ test_completed_count <= 1
    /\ end_time_writes <= 1

\* C8: while the current step was reached by a VIEW_ONLY navigation no
\* submission reaches submit_result, so its status, value, comment and
\* duration do not change.
C8_ViewOnlyIsReadOnly ==
    [][(current_step_index >= 0 /\ current_mode = "view_only")
       => /\ Emitted("result_submitted")' = {}
          /\ ResultOf(steps'[current_step_index + 1])
               = ResultOf(steps[current_step_index + 1])]_vars

\* C9: a successful navigation to a target behind the current index whose
\* step is PASSED or FAILED is carried out as VIEW_ONLY whatever mode the
\* caller passed: step_changed carries VIEW_ONLY and no timer is started.
C9_BackwardIntoCompletedIsViewOnly ==
    [][\A k \in Emitted("step_changed")' :
         (/\ emitted'[k].index < current_step_index
          /\ steps[emitted'[k].index + 1].status \in {"passed", "failed"})
         => /\ emitted'[k].text = "view_only"
            /\ active_step_index' = NoneIdx]_vars

\* C10: submit_result on a current index i with i + 1 < totalSteps records
\* PASSED or FAILED in step i, leaves timer i stopped, emits
\* result_submitted(i, value, status) and ends at index i + 1 with timer
\* i + 1 running on step i + 1's time budget.
C10_SubmitAdvances ==
    \A a \in SubmitInputs :
        LET i == current_step_index
            S2 == submit_result(Cur, a[1], a[2], a[3], a[4])
            status == S2.steps[i + 1].status
            value == IF Truthy(a[2]) THEN a[2] ELSE a[1]
        IN (i >= 0 /\ i + 1 < Len(steps))
           => /\ status \in {"passed", "failed"}
              /\ i \notin Running(S2.step_timers)
              /\ \E k \in 1..Len(S2.emitted) :
                   S2.emitted[k] = Event("result_submitted", i, 0, status,
                                         value, Absent)
              /\ S2.current_step_index = i + 1
              /\ Running(S2.step_timers) = {i + 1}
              /\ S2.active_step_index = i + 1
              /\ S2.update_timer
              /\ S2.step_timers[i + 1].limit = steps[i + 2].time_limit

C10_Witness ==
    /\ Emitted("result_submitted") # {}
    /\ Emitted("step_changed") # {}
    /\ current_step_index >= 1
    /\ steps[current_step_index].status \in {"passed", "failed"}
    /\ Running(step_timers) = {current_step_index}

---------------------------------------------------------------------------
(* C11 .. C20 *)

Done(step) == step.status \in {"passed", "failed"}

\* C11: in a session where, after start_test, only results are submitted, the
\* index visits 0, 1, ..., n-1 in order, each submission advancing it by
\* exactly one: the steps behind the index are PASSED or FAILED, those ahead
\* are untouched, the history is the chain 0->1->...; and after the n-th
\* submission the session is completed: end timestamp set, no timer running,
\* every step PASSED or FAILED.
C11_FullSessionProgress ==
    /\ [](current_step_index >= 0 =>
            LET i == current_step_index
                n == Len(steps)
            IN /\ i < n
               /\ \A j \in 0..(n - 1) :
                    /\ j < i => Done(steps[j + 1])
                    /\ j > i => steps[j + 1].status = "not_started"
               /\ navigation_history
                    = [k \in 1..i |-> [from |-> k - 1, to |-> k]]
               /\ test_completed_count = 0 =>
                    /\ steps[i + 1].status = "in_progress"
                    /\ Running(step_timers) = {i}
                    /\ session.end_time = NoneInt
               /\ test_completed_count >= 1 =>
                    /\ i = n - 1
                    /\ \A j \in 1..n : Done(steps[j])
                    /\ Running(step_timers) = {}
                    /\ active_step_index = NoneIdx
                    /\ session.end_time # NoneInt)
    /\ [][Emitted("result_submitted")' # {} =>
            \/ /\ current_step_index + 1 < Len(steps)
               /\ current_step_index' = current_step_index + 1
               /\ test_completed_count' = test_completed_count
            \/ /\ current_step_index + 1 = Len(steps)
               /\ current_step_index' = current_step_index
               /\ test_completed_count' = test_completed_count + 1
               /\ session'.end_time = now]_vars

C11_Witness ==
    /\ Len(steps) = MaxSteps
    /\ test_completed_count = 1
    /\ Emitted("test_completed") # {}
    /\ session.end_time > session.start_time
    /\ \E j \in 1..Len(steps) : steps[j].status = "failed"
    /\ \E j \in 1..Len(steps) : steps[j].status = "passed"

\* numbers an operator can enter on a step with bounds [1, 2]: below the
\* range, on each bound, above the range
NumberValues == 0..3

InRange(validation, v) == validation.min <= v /\ v <= validation.max

\* C12: on a NUMBER step with inclusive bounds [min, max], a number v entered
\* and submitted is recorded with status PASSED exactly when min <= v <= max
\* and FAILED otherwise, and the entered value is recorded in the step in
\* both cases.
C12_NumberStatusFollowsRange ==
    (/\ current_step_index >= 0
     /\ steps[current_step_index + 1].input_type = "number"
     /\ input_widget.type = "number")
    => \A v \in NumberValues, c \in {"", "c"} :
         LET i == current_step_index
             validation == steps[i + 1].input_validation
             S1 == _on_write_clicked(Cur, Text(v))
             S2 == _on_proceed_clicked(S1, c)
             status == IF InRange(validation, v) THEN "passed" ELSE "failed"
         IN /\ proceed_emits(S1)
            /\ S2.steps[i + 1].status = status
            /\ S2.steps[i + 1].result_value = Text(v)
            /\ \E k \in 1..Len(S2.emitted) :
                 S2.emitted[k] = Event("result_submitted", i, 0, status,
                                       Text(v), Absent)

C12_Witness ==
    \E j \in 1..Len(steps) :
        /\ steps[j].input_type = "number"
        /\ steps[j].status = "failed"
        /\ steps[j].result_value.kind = "text"
        /\ ~InRange(steps[j].input_validation, steps[j].result_value.n)
        /\ Emitted("result_submitted") # {}

\* bounds a NUMBER step can carry: each of min and max missing or given
ValidationRules ==
    {[min |-> lo, max |-> hi] : lo \in {NoneInt, 1, 2}, hi \in {NoneInt, 1, 2}}

\* values handed to the checks: numeric text, numbers, no value, and strings
\* that are neither numbers nor recognised tokens
CandidateValues ==
    {Text(v) : v \in NumberValues} \cup {Num(v) : v \in NumberValues}
    \cup {Absent, Token("abc")}

\* strings handed to the PASS_FAIL checks
CandidateTokens ==
    PASS_FAIL_TOKENS \cup {Absent, Token("abc"), Token("MAYBE"), Text(2)}

\* min <= v <= max, a missing bound being unbounded
InOpenRange(rules, v) ==
    /\ (rules.min = NoneInt \/ rules.min <= v)
    /\ (rules.max = NoneInt \/ v <= rules.max)

\* the NUMBER half of C13: validate_result is true exactly when the value
\* parses as a number within the bounds, and equals the validity the number
\* widget hands to save for the same text
NumberChecksAgree ==
    /\ \A rules \in ValidationRules, value \in CandidateValues :
         /\ validate_result("number", value, rules)
              = (Parses(value) /\ InOpenRange(rules, value.n))
         /\ value.kind # "number" =>
              validate_result("number", value, rules)
                = (NumberInputWidget_get_result(rules, value)[2] = "True")
    /\ \A j \in 1..Len(steps) :
         LET rules == steps[j].input_validation
             value == steps[j].result_value
         IN steps[j].input_type = "number" =>
              validate_result("number", value, rules)
                = (Parses(value) /\ InOpenRange(rules, value.n))

Validities == {"True", "False", "None"}

\* C14: on a PASS_FAIL step a submission carrying the pass token records
\* PASSED and one carrying the fail token records FAILED, the recorded value
\* being that token, whatever the other arguments are.
C14_StatusFollowsToken ==
    (/\ current_step_index >= 0
     /\ steps[current_step_index + 1].input_type = "pass_fail")
    => \A token \in {Token("PASS"), Token("FAIL")},
          result_value \in {Absent, Num(2)},
          is_valid \in Validities :
         LET i == current_step_index
             S2 == submit_result(Cur, result_value, token, "", is_valid)
         IN /\ S2.steps[i + 1].result_value = token
            /\ S2.steps[i + 1].status
                 = IF token = Token("PASS") THEN "passed" ELSE "failed"

\* C15: on a step whose input requirement is none, save_result yields
\* PASSED for every value, token and validity argument.
C15_NoneStepAlwaysPasses ==
    \A i \in 0..(Len(steps) - 1) :
        steps[i + 1].input_type = "none"
        => \A result_value \in {Absent, Num(2)},
              checkbox_value \in {Absent, Token("PASS"), Token("FAIL")},
              is_valid \in Validities :
             save_result(Cur, i, result_value, checkbox_value, "", is_valid,
                         0).steps[i + 1].status = "passed"

\* C16: every save_result call emits exactly one result_saved(index, value,
\* status), preceded by one result_changed(index, old, new) exactly when the
\* value it records differs from the value the step held before, old and new
\* being those two values; nothing else is emitted.
C16_SavedAlwaysChangedOnDifference ==
    \A i \in 0..(Len(steps) - 1), a \in SubmitInputs, d \in 0..MaxTime :
        LET S2 == save_result(Cur, i, a[1], a[2], a[3], a[4], d)
            old == steps[i + 1].result_value
            new == S2.steps[i + 1].result_value
            saved == Event("result_saved", i, 0, S2.steps[i + 1].status,
                           new, Absent)
            changed == Event("result_changed", i, 0, "", new, old)
        IN S2.emitted = IF old # new THEN <<changed, saved>> ELSE <<saved>>

\* a result submitted again with the value the step already holds
C16_Witness ==
    /\ current_step_index >= 0
    /\ steps[current_step_index + 1].result_value # Absent
    /\ Emitted("result_saved") = {1}
    /\ Emitted("result_changed") = {}
    /\ test_completed_count >= 2

\* the program state one clock unit later
Later(S) == [S EXCEPT !.now = @ + 1]

\* C17: stop_timer is idempotent: for every index and timer state a second
\* stop_timer(index), made at once or later, returns the same elapsed value
\* as the first and changes nothing; on an index never started stop_timer
\* returns 0 and changes nothing.
C17_StopIdempotent ==
    \A i \in -1..MaxSteps :
        LET S1 == stop_timer(Cur, i)
        IN /\ stop_timer(S1, i) = S1
           /\ stop_timer(Later(S1), i) = Later(S1)
           /\ stop_timer_result(S1, i) = stop_timer_result(Cur, i)
           /\ stop_timer_result(Later(S1), i) = stop_timer_result(Cur, i)
           /\ ~HasTimer(Cur, i) =>
                /\ stop_timer_result(Cur, i) = 0
                /\ S1 = Cur

\* a timer stopped after it ran, with time gone by since, next to an index
\* that was never started
C17_Witness ==
    /\ active_step_index = NoneIdx
    /\ ~update_timer
    /\ \E i \in DOMAIN step_timers :
         /\ step_timers[i].paused
         /\ step_timers[i].elapsed > 0
         /\ now > step_timers[i].start_time + step_timers[i].elapsed
    /\ \E i \in 0..(MaxSteps - 1) : i \notin DOMAIN step_timers

\* C18: start_timer(index, budget) on an index whose timer is running is a
\* no-op: start instant and accumulated elapsed are unchanged, so elapsed
\* and remaining are the same right after the call as right before it (the
\* budget passed is the one the timer already has).
C18_StartRunningIsNoOp ==
    \A i \in Running(step_timers) :
        LET S2 == start_timer(Cur, i, step_timers[i].limit)
        IN /\ S2.step_timers[i].start_time = step_timers[i].start_time
           /\ S2.step_timers[i].elapsed = step_timers[i].elapsed
           /\ get_elapsed_time(S2, i) = get_elapsed_time(Cur, i)
           /\ get_remaining_time(S2, i) = get_remaining_time(Cur, i)

\* C19: for every budget > 0 the tier boundaries are closed on the more
\* severe side: remaining exactly 20% of the budget is WARNING, exactly 10%
\* is CRITICAL, 0 is CRITICAL, negative is OVERTIME, more than 20% is
\* NORMAL, and between 10% and 20% is WARNING; a tick reports that tier.
C19_TierBoundaries ==
    \A i \in DOMAIN step_timers :
        LET budget == step_timers[i].limit
            remaining == get_remaining_time(Cur, i)
            tier == get_timer_status(Cur, i)
        IN budget > 0 =>
           /\ remaining < 0 => tier = "overtime"
           /\ remaining = 0 => tier = "critical"
           /\ remaining * 10 = budget => tier = "critical"
           /\ remaining * 5 = budget => tier = "warning"
           /\ remaining * 5 > budget => tier = "normal"
           /\ (remaining * 10 > budget /\ remaining * 5 < budget)
                => tier = "warning"
           /\ \A k \in Emitted("timer_tick") :
                emitted[k].index = i => emitted[k].text = tier

\* a tick at exactly 20% of the budget
C19_Witness ==
    /\ 0 \in DOMAIN step_timers
    /\ get_remaining_time(Cur, 0) * 5 = step_timers[0].limit
    /\ emitted = <<Event("timer_tick", 0, get_remaining_time(Cur, 0),
                         "warning", Absent, Absent)>>

\* C20: a tick emits at most one timer_tick, and an emitted timer_tick is
\* for an index whose timer is running (neither paused nor cleared) and
\* carries that index's remaining time and tier; while some timer is running
\* the ticks go on.
C20_TickReportsRunningTimer ==
    /\ Cardinality(Emitted("timer_tick")) <= 1
    /\ \A k \in Emitted("timer_tick") :
         /\ emitted[k].index \in Running(step_timers)
         /\ emitted[k].num = get_remaining_time(Cur, emitted[k].index)
         /\ emitted[k].text = get_timer_status(Cur, emitted[k].index)
    /\ Running(step_timers) # {} =>
         /\ update_timer
         /\ active_step_index \in Running(step_timers)

---------------------------------------------------------------------------
(* C21 .. C30 *)

\* C21: every successful navigate_to_step call, the initial navigation to
\* index 0 made by start_test included, appends exactly one entry holding
\* the (from, to) pair of the call to the navigation history and leaves the
\* earlier entries as they were; a rejected call adds no entry.
C21_EveryNavigationRecorded ==
    /\ \A target \in -1..MaxSteps, mode \in NavigationMode :
         LET verdict == can_navigate_to(current_step_index, target,
                                        Len(steps), get_role(Cur))
             after == navigate_to_step(Cur, target, mode).navigation_history
         IN IF verdict.allowed
            THEN after = Append(navigation_history,
                                [from |-> current_step_index, to |-> target])
            ELSE after = navigation_history
    /\ (current_step_index = -1 /\ Len(steps) > 0)
         => start_test(Cur).navigation_history
              = Append(navigation_history, [from |-> -1, to |-> 0])

\* C22: determine_navigation_mode is a function of (current, target,
\* target status) alone: whatever calls came before, a target behind the
\* current index yields VIEW_ONLY when its status is PASSED or FAILED and
\* NORMAL for every other status, and a target ahead yields NORMAL.
C22_ModeFollowsArguments ==
    \A target \in -1..MaxSteps, status \in TestStatus :
        LET mode == determine_navigation_mode(current_step_index, target,
                                              status)
        IN /\ (target < current_step_index
               /\ status \in {"passed", "failed"}) => mode = "view_only"
           /\ (target < current_step_index
               /\ status \notin {"passed", "failed"}) => mode = "normal"
           /\ target > current_step_index => mode = "normal"

C22_Witness ==
    /\ current_step_index = 1
    /\ steps[1].status \in {"passed", "failed"}
    /\ navigation_history # <<>>
    /\ determine_navigation_mode(current_step_index, 0, steps[1].status)
         = "view_only"

\* the user_role argument navigate_to_step can pass to can_navigate_to
RoleArguments == {"None", OPERATOR, ADMIN, DEVELOPER}

\* C23: when the current index is a valid index, can_navigate_to refuses
\* the current index itself as a target with the "already there" reason,
\* for every role.
C23_SameIndexRefused ==
    (current_step_index >= 0 /\ current_step_index < Len(steps))
    => \A role \in RoleArguments :
         can_navigate_to(current_step_index, current_step_index,
                         Len(steps), role)
           = Verdict(FALSE, REASON_SAME)

C23_Witness ==
    /\ current_step_index >= 0
    /\ current_step_index < Len(steps)
    /\ emitted = <<Blocked(REASON_SAME)>>

\* C24: for every role, every target in range that lies ahead of the
\* current index is allowed, at any distance and whatever the status of the
\* target or of the steps in between.
C24_ForwardAlwaysAllowed ==
    \A target \in 0..(Len(steps) - 1), role \in RoleArguments :
        target > current_step_index
        => can_navigate_to(current_step_index, target, Len(steps), role)
             = Verdict(TRUE, "")

\* a forward jump over step 0, which is left NOT_STARTED, has been carried
\* out for a role without the backward capability
C24_Witness ==
    /\ current_step_index = 1
    /\ steps[1].status = "not_started"
    /\ user_role # ADMIN
    /\ Len(emitted) > 0
    /\ emitted[1] = Event("step_changed", 1, Len(steps), "normal",
                          Absent, Absent)

\* C25: start_test on a loaded catalogue with at least one step that has
\* not been started writes the session start timestamp and ends at index 0
\* with step 0 IN_PROGRESS, timer 0 running on step 0's time budget and
\* exactly one step_changed(0, totalSteps, NORMAL) emitted; with no step
\* loaded it returns failure and changes nothing.
C25_StartTest ==
    LET S2 == start_test(Cur)
        changed == {k \in 1..Len(S2.emitted) :
                      S2.emitted[k].sig = "step_changed"}
    IN /\ (current_step_index = -1 /\ Len(steps) > 0 /\ session.loaded)
          => /\ start_test_result(Cur)
             /\ S2.session.start_time = now
             /\ S2.current_step_index = 0
             /\ S2.steps[1].status = "in_progress"
             /\ Running(S2.step_timers) = {0}
             /\ S2.active_step_index = 0
             /\ S2.update_timer
             /\ S2.step_timers[0].limit = steps[1].time_limit
             /\ Cardinality(changed) = 1
             /\ \A k \in changed :
                  S2.emitted[k] = Event("step_changed", 0, Len(steps),
                                        "normal", Absent, Absent)
       /\ Len(steps) = 0 => (~start_test_result(Cur) /\ S2 = Cur)

\* the session was started after the clock had moved
C25_Witness ==
    /\ current_step_index = 0
    /\ session.start_time = now
    /\ now > 0
    /\ steps[1].status = "in_progress"
    /\ Running(step_timers) = {0}
    /\ Emitted("step_changed") # {}

\* C26: every successful navigate_to_step call emits exactly one
\* step_changed(newIndex, totalSteps, mode), in VIEW_ONLY mode too; a
\* successful VIEW_ONLY navigation leaves no timer running, and as long as
\* the last successful navigation was VIEW_ONLY no timer runs and a timeout
\* of the update timer would emit no tick.
C26_ViewOnlyLeavesTimersStopped ==
    /\ \A target \in -1..MaxSteps, mode \in NavigationMode :
         LET S2 == navigate_to_step(Cur, target, mode)
             changed == {k \in 1..Len(S2.emitted) :
                           S2.emitted[k].sig = "step_changed"}
         IN can_navigate_to(current_step_index, target, Len(steps),
                            get_role(Cur)).allowed
            => /\ Cardinality(changed) = 1
               /\ \A k \in changed :
                    S2.emitted[k] = Event("step_changed", target,
                                          Len(steps), mode, Absent, Absent)
               /\ mode = "view_only"
                    => /\ Running(S2.step_timers) = {}
                       /\ S2.active_step_index = NoneIdx
                       /\ ~S2.update_timer
    /\ current_mode = "view_only"
         => /\ Running(step_timers) = {}
            /\ ~update_timer
            /\ TimerManager_on_timer_tick(Cur).emitted = <<>>

\* a VIEW_ONLY navigation has just left a step whose timer had been running
C26_Witness ==
    /\ current_mode = "view_only"
    /\ current_step_index >= 1
    /\ Len(emitted) > 0
    /\ emitted[1] = Event("step_changed", current_step_index, Len(steps),
                          "view_only", Absent, Absent)
    /\ \E i \in DOMAIN step_timers : step_timers[i].paused

\* the result of a step that a snapshot has to keep
SnapshotResult(step) ==
    <<step.status, step.result_value, step.actual_duration>>

\* C27: the snapshot round trip keeps the results: for every step,
\* TestStep.from_dict(step.to_dict()) has the status, recorded value and
\* duration of the step, and TestSession.from_dict(session.to_dict()) has
\* the same number of steps in the same order, each with the status, value
\* and duration of the original.
C27_SnapshotRoundTrip ==
    /\ \A i \in DOMAIN steps :
         SnapshotResult(TestStep_from_dict(TestStep_to_dict(steps[i])))
           = SnapshotResult(steps[i])
    /\ session.loaded
         => LET restored == TestSession_from_dict(TestSession_to_dict(Cur))
            IN /\ Len(restored.steps) = Len(steps)
               /\ \A i \in DOMAIN steps :
                    SnapshotResult(restored.steps[i])
                      = SnapshotResult(steps[i])

\* a snapshot of a completed session whose steps carry values and durations
C27_Witness ==
    /\ session.loaded
    /\ session.end_time # NoneInt
    /\ \E i \in DOMAIN steps :
         /\ steps[i].status = "failed"
         /\ steps[i].result_value # Absent
         /\ steps[i].actual_duration > 0
         /\ steps[i].start_time # NoneInt
         /\ TestStep_from_dict(TestStep_to_dict(steps[i])) # steps[i]

\* C28: the start timestamp of a step is written exactly once, by the first
\* navigation that enters the step: a step has a timestamp exactly when it
\* has left NOT_STARTED, the step that is entered for the first time takes
\* the time of that navigation, and no later navigation into the step,
\* submission or tick changes a timestamp that is set.
C28_StartTimeSetOnce ==
    /\ [](\A i \in DOMAIN steps :
            (steps[i].start_time = NoneInt)
              <=> (steps[i].status = "not_started"))
    /\ [][\A i \in DOMAIN steps :
            /\ steps[i].start_time # NoneInt
                 => steps'[i].start_time = steps[i].start_time
            /\ (steps[i].start_time = NoneInt
                /\ steps'[i].start_time # NoneInt)
                 => /\ current_step_index # i - 1
                    /\ current_step_index' = i - 1
                    /\ steps'[i].start_time = now
            /\ (steps[i].start_time = NoneInt
                /\ current_step_index' = i - 1)
                 => steps'[i].start_time = now]_vars

\* a step entered at one time has been entered again later
C28_Witness ==
    /\ current_step_index >= 0
    /\ steps[current_step_index + 1].start_time # NoneInt
    /\ steps[current_step_index + 1].start_time < now
    /\ Emitted("step_changed") # {}
    /\ steps[current_step_index + 1].status \in {"passed", "failed"}

C30_TickChangesNoState ==
    LET S2 == TimerManager_on_timer_tick(Cur)
        remaining == get_remaining_time(Cur, active_step_index)
    IN /\ [S2 EXCEPT !.emitted = <<>>] = Cur
       /\ \A k \in 1..Len(S2.emitted) :
            S2.emitted[k].sig \in {"timer_tick", "timer_updated"}
       /\ (active_step_index # NoneIdx
           /\ active_step_index = current_step_index
           /\ remaining < 0)
            => \E k \in 1..Len(S2.emitted) :
                 S2.emitted[k] = Event("timer_updated", 0, remaining,
                                       "overtime", Absent, Absent)

\* a tick has reported overtime on a step that is still in progress in a
\* session that has not ended
C30_Witness ==
    /\ \E k \in Emitted("timer_updated") :
         /\ emitted[k].num < 0
         /\ emitted[k].text = "overtime"
    /\ current_step_index >= 0
    /\ steps[current_step_index + 1].status = "in_progress"
    /\ session.end_time = NoneInt
    /\ Running(step_timers) = {current_step_index}

---------------------------------------------------------------------------
(* C31 .. C39 *)

\* C31: a successful NORMAL navigation resets the timer of its target: right
\* after navigate_to_step(j, NORMAL) the elapsed time of j is zero and its
\* remaining time is the full time budget of step j, also when step j was
\* entered and timed before.
C31_NormalNavigationResetsTimer ==
    \A target \in 0..(Len(steps) - 1) :
        LET S2 == navigate_to_step(Cur, target, "normal")
        IN can_navigate_to(current_step_index, target, Len(steps),
                           get_role(Cur)).allowed
           => /\ get_elapsed_time(S2, target) = 0
              /\ get_remaining_time(S2, target) = steps[target + 1].time_limit

\* the names of the signals emitted by the last call, in order
Signals == [k \in 1..Len(emitted) |-> emitted[k].sig]

\* C32: one submit_result call emits, in this order, result_changed (only
\* when the recorded value differs from the one the step held),
\* result_saved, result_submitted, and then step_changed for the next index
\* or, on the last step, test_completed.
C32_SubmitNotificationOrder ==
    [][Emitted("result_submitted")' # {} =>
         LET i == current_step_index
             differs == steps'[i + 1].result_value # steps[i + 1].result_value
             head == IF differs THEN <<"result_changed">> ELSE <<>>
             last == IF i + 1 < Len(steps) THEN "step_changed"
                     ELSE "test_completed"
         IN /\ Signals' = head \o <<"result_saved", "result_submitted", last>>
            /\ emitted'[Len(emitted')].index
                 = (IF i + 1 < Len(steps) THEN i + 1 ELSE 0)]_vars

\* a submission that changed the value and moved on to the next step
C32_Witness ==
    /\ Signals = <<"result_changed", "result_saved", "result_submitted",
                   "step_changed">>
    /\ current_step_index = 1

\* navigate_to_step is state_at_step_changed followed by the subscriber and,
\* in NORMAL mode, start_timer
NavigationContinuesDelivery ==
    \A target \in 0..(Len(steps) - 1), mode \in NavigationMode :
        can_navigate_to(current_step_index, target, Len(steps),
                        get_role(Cur)).allowed
        => LET D == _on_step_changed(
                      state_at_step_changed(Cur, target, mode), target)
           IN navigate_to_step(Cur, target, mode)
                = IF mode = "normal"
                  THEN start_timer(D, target, steps[target + 1].time_limit)
                  ELSE D

\* C33: in a successful NORMAL navigation the timer of the new index is
\* already running when step_changed(newIndex, total, NORMAL) is delivered
\* to its subscribers.
C33_TimerRunsAtStepChanged ==
    \A target \in 0..(Len(steps) - 1) :
        can_navigate_to(current_step_index, target, Len(steps),
                        get_role(Cur)).allowed
        => LET D == state_at_step_changed(Cur, target, "normal")
           IN /\ target \in Running(D.step_timers)
              /\ D.active_step_index = target

\* C34: save_result always records the submitted value: with no checkbox
\* token and a numeric result value v the step holds v after the call, for
\* every v, 0 included.
C34_SaveWritesSubmittedValue ==
    \A i \in 0..(Len(steps) - 1), v \in NumberValues, is_valid \in Validities :
        save_result(Cur, i, Num(v), Absent, "", is_valid, 0)
          .steps[i + 1].result_value = Num(v)

\* C35: submit_result called before start_test, when there is no current
\* step, changes nothing: step records, timers, history and session are as
\* before, no signal is emitted and the session is not completed.
C35_SubmitWithoutStepIsNoOp ==
    current_step_index = -1
    => \A a \in SubmitInputs :
         submit_result(Cur, a[1], a[2], a[3], a[4]) = Cur

\* a loaded session that is still not started after the clock has moved
C35_Witness ==
    /\ current_step_index = -1
    /\ Len(steps) > 0
    /\ now > 0
    /\ emitted = <<>>
    /\ test_completed_count = 0
    /\ session.end_time = NoneInt
    /\ \A j \in 1..Len(steps) : steps[j].status = "not_started"

\* C36: a step's status only moves forward: it changes from NOT_STARTED to
\* IN_PROGRESS when a navigation enters the step for the first time, and
\* from IN_PROGRESS, PASSED or FAILED to PASSED or FAILED when a result is
\* submitted on the step, and in no other way; no step is ever SKIPPED and
\* the current step of a started session is never NOT_STARTED.
C36_StatusMovesForward ==
    /\ [](\A j \in DOMAIN steps : steps[j].status # "skipped")
    /\ [](current_step_index >= 0
            => steps[current_step_index + 1].status # "not_started")
    /\ [][\A j \in DOMAIN steps :
            steps'[j].status # steps[j].status
            => \/ /\ steps[j].status = "not_started"
                  /\ steps'[j].status = "in_progress"
                  /\ current_step_index' = j - 1
                  /\ Emitted("step_changed")' # {}
               \/ /\ steps[j].status \in {"in_progress", "passed", "failed"}
                  /\ steps'[j].status \in {"passed", "failed"}
                  /\ current_step_index = j - 1
                  /\ Emitted("result_submitted")' # {}]_vars

\* a completed step has been entered again and its result replaced by one
\* with the other status
C36_Witness ==
    /\ Emitted("result_submitted") # {}
    /\ Emitted("result_changed") # {}
    /\ \E k \in Emitted("result_changed") :
         /\ emitted[k].old # Absent
         /\ steps[emitted[k].index + 1].status = "failed"

\* C37: for an operator a recorded result is final: once a step is PASSED or
\* FAILED, no later submit_result or navigation call changes its status,
\* recorded value or duration.
C37_OperatorResultsAreFinal ==
    [][user_role = OPERATOR
       => \A j \in DOMAIN steps :
            Done(steps[j])
            => SnapshotResult(steps'[j]) = SnapshotResult(steps[j])]_vars

\* the count get_completion_percentage divides by the number of steps
completed_steps(S) ==
    Cardinality({j \in DOMAIN S.steps :
                   S.steps[j].status \in {"passed", "failed"}})

\* C38: whenever the session is completed (test_completed emitted and the
\* end timestamp set) every step is PASSED or FAILED, that is, the
\* completion percentage is 100.
C38_CompletedMeansAllDone ==
    (test_completed_count >= 1 /\ session.end_time # NoneInt)
    => /\ \A j \in DOMAIN steps : Done(steps[j])
       /\ completed_steps(Cur) = Len(steps)

\* C39: start_test on a session that has already been started changes
\* nothing: the session start timestamp, the current index, the step
\* records and the timers are as before, for every role.
C39_StartTestOnlyOnce ==
    current_step_index >= 0
    => LET S2 == start_test(Cur)
       IN /\ S2.session.start_time = session.start_time
          /\ S2.current_step_index = current_step_index
          /\ S2.steps = steps
          /\ S2.step_timers = step_timers
          /\ S2.active_step_index = active_step_index

=============================================================================
